---- MODULE Spec2Model ----
(***************************************************************************)
(* Statistics engine of the Hanabi client                                  *)
(* (packages/client/src/game/rules/stats.ts): pace, pace risk, clues still *)
(* usable, cards gotten, cards gotten by notes, double discard detection.  *)
(*                                                                         *)
(* The stats functions are pure.  SpecPace and SpecClues draw the          *)
(* arguments of one call in Init and apply the functions; SpecGotten and   *)
(* SpecNotes draw a position of the game in Init and count the cards       *)
(* gotten on it; Spec plays a small game and recomputes the game           *)
(* statistics after every action.  SpecObserver runs the listeners of     *)
(* StateObserver (src/unnamed/part_000) after each state transition, and   *)
(* SpecClueLog runs updateLog of cluesView.ts after each change of the     *)
(* clue list.                                                              *)
(***************************************************************************)
EXTENDS Integers, Sequences, FiniteSets

VARIABLES
    args,       \* the arguments of the stats call under way (a record)
    stats,      \* StatsState: the derived statistics
    gameState,  \* GameState: deck, hands, playStacks, turn, clueTokens
    server,     \* what the client cannot see: the draw pile, the cards' identities
    action,     \* the last game action folded into gameState
    notes,      \* our player's notes, by card order
    observer,   \* StateObserver: the store it observes and the listeners it called
    clues,      \* GameState.clues, as handed to cluesView.onCluesChanged
    clueLog     \* globals.elements.clueLog

uiVars == <<observer, clues, clueLog>>
gameVars == <<gameState, server, action, notes, uiVars>>
vars == <<args, stats, gameState, server, action, notes, observer, clues, clueLog>>

(***************************************************************************)
(* Nullable numbers and raised errors.  A result is a record so that a     *)
(* number, null and a thrown Error can be compared with each other.        *)
(***************************************************************************)
Number(n) == [kind |-> "number", value |-> n]
Null == [kind |-> "null", value |-> 0]
Throw == [kind |-> "throw", value |-> 0]
Unset == [kind |-> "unset", value |-> 0]

Min(a, b) == IF a <= b THEN a ELSE b
Max(a, b) == IF a >= b THEN a ELSE b

(***************************************************************************)
(* Bounds of the argument sets.                                            *)
(***************************************************************************)
MaxScoreArg == 2
MaxDeckSize == 4
MaxMaxScore == 3
MaxEndGameLength == 2
MaxSuits == 2
MaxStackSize == 2

NumPlayers == 2..6
PaceRisk == {"Zero", "Low", "Medium", "High"}

(***************************************************************************)
(* stats.ts: the play and discard budgets.                                 *)
(***************************************************************************)
getMaxDiscardsBeforeFinalRoundWholeDeck(cardsToPlay, deckSize, endGameLength) ==
    IF cardsToPlay <= endGameLength + 1
    THEN deckSize
    ELSE IF cardsToPlay <= endGameLength + deckSize
         THEN endGameLength + deckSize - cardsToPlay
         ELSE 0

getMaxDiscardsBeforeFinalRound(cardsToPlay, deckSize, endGameLength) ==
    IF cardsToPlay <= endGameLength + 1
    THEN deckSize - 1
    ELSE IF cardsToPlay <= endGameLength + deckSize
         THEN endGameLength + deckSize - cardsToPlay
         ELSE 0

getMaxPlaysDuringFinalRound(cardsToPlay, endGameLength) ==
    IF cardsToPlay < endGameLength + 1
    THEN cardsToPlay
    ELSE endGameLength + 1

getMaxPlays(cardsToPlay, deckSize, endGameLength) ==
    IF cardsToPlay <= endGameLength + deckSize
    THEN cardsToPlay
    ELSE endGameLength + deckSize

(***************************************************************************)
(* stats.ts: getPace and getPaceRisk.                                      *)
(***************************************************************************)
getPaceNoDeckCheck(score, deckSize, maxScore, endGameLength, gameOver) ==
    IF gameOver
    THEN Null
    ELSE Number(score + deckSize - maxScore + endGameLength)

getPace(score, deckSize, maxScore, endGameLength, gameOver) ==
    IF gameOver
    THEN Null
    ELSE IF deckSize <= 0
         THEN Null
         ELSE LET adjustedScorePlusDeck == score + deckSize - maxScore
              IN  Number(adjustedScorePlusDeck + endGameLength)

getPaceRiskHighSignFlipped(currentPace, numPlayers) ==
    IF currentPace = Null
    THEN "Low"
    ELSE IF currentPace.value <= 0
         THEN "Zero"
         ELSE IF currentPace.value - numPlayers + (numPlayers \div 2) > 0
              THEN "High"
              ELSE IF currentPace.value - numPlayers < 0
                   THEN "Medium"
                   ELSE "Low"

getPaceRiskMediumFirst(currentPace, numPlayers) ==
    IF currentPace = Null
    THEN "Low"
    ELSE IF currentPace.value <= 0
         THEN "Zero"
         ELSE IF currentPace.value - numPlayers < 0
              THEN "Medium"
              ELSE IF currentPace.value - numPlayers + (numPlayers \div 2) < 0
                   THEN "High"
                   ELSE "Low"

getPaceRiskFloorSubtracted(currentPace, numPlayers) ==
    IF currentPace = Null
    THEN "Low"
    ELSE IF currentPace.value <= 0
         THEN "Zero"
         ELSE IF currentPace.value - numPlayers - (numPlayers \div 2) < 0
              THEN "High"
              ELSE IF currentPace.value - numPlayers < 0
                   THEN "Medium"
                   ELSE "Low"

getPaceRisk(currentPace, numPlayers) ==
    IF currentPace = Null
    THEN "Low"
    ELSE IF currentPace.value <= 0
         THEN "Zero"
         ELSE IF currentPace.value - numPlayers + (numPlayers \div 2) < 0
              THEN "High"
              ELSE IF currentPace.value - numPlayers < 0
                   THEN "Medium"
                   ELSE "Low"

(***************************************************************************)
(* SpecPace: one call of getPace followed by one call of getPaceRisk on    *)
(* its result, as the stats reducer chains them.                           *)
(***************************************************************************)
PaceArgs ==
    [ score : 0..MaxScoreArg,
      deckSize : -1..MaxDeckSize,
      maxScore : 0..MaxMaxScore,
      endGameLength : 0..MaxEndGameLength,
      gameOver : BOOLEAN,
      numPlayers : NumPlayers ]

\* 5-suit No Variant, 2 players, at the start of the game.
NoVariantPaceArgs ==
    [ score |-> 0, deckSize |-> 40, maxScore |-> 25, endGameLength |-> 2,
      gameOver |-> FALSE, numPlayers |-> 2 ]

NoStats ==
    [ pace |-> Unset, paceRisk |-> "Unset", cluesStillUsable |-> Unset,
      cardsGotten |-> 0, cardsGottenByNotes |-> 0, doubleDiscardCard |-> Null ]

\* No user interface is attached while the stats are exercised.
NoUi ==
    /\ observer = [ visibleState |-> FALSE, changed |-> {}, called |-> <<>> ]
    /\ clues = <<>>
    /\ clueLog = Null

\* No game is loaded while a single stats function is exercised.
NoGame ==
    /\ NoUi
    /\ gameState = [ deck |-> <<>>, hands |-> <<>>, playStacks |-> <<>>,
                     turn |-> [ currentPlayerIndex |-> Null, turnNum |-> 0 ],
                     clueTokens |-> 0 ]
    /\ server = [ drawPile |-> <<>>, identity |-> <<>> ]
    /\ action = [ type |-> "none", order |-> 0, playerIndex |-> 0 ]
    /\ notes = <<>>

InitPace ==
    /\ args \in PaceArgs \cup {NoVariantPaceArgs}
    /\ stats = NoStats
    /\ NoGame

CallGetPace ==
    /\ stats.pace = Unset
    /\ stats' = [stats EXCEPT !.pace = getPace(args.score, args.deckSize,
                        args.maxScore, args.endGameLength, args.gameOver)]
    /\ UNCHANGED <<args, gameVars>>

CallGetPaceRisk ==
    /\ stats.pace # Unset
    /\ stats.paceRisk = "Unset"
    /\ stats' = [stats EXCEPT !.paceRisk = getPaceRisk(stats.pace, args.numPlayers)]
    /\ UNCHANGED <<args, gameVars>>

NextPace == CallGetPace \/ CallGetPaceRisk

SpecPace == InitPace /\ [][NextPace]_vars

(***************************************************************************)
(* stats.ts: getCluesStillUsableNotRounded.  Clue amounts (discardValue,   *)
(* suitValue, currentClues and the result) are counted in half clue        *)
(* tokens, the unit of the Clue Starved variants, so that they stay        *)
(* integers: the result is linear in them.                                 *)
(***************************************************************************)
RECURSIVE sumArray(_)
sumArray(array) ==
    IF array = <<>> THEN 0 ELSE Head(array) + sumArray(Tail(array))

\* The loop over scorePerStack.entries() that pushes the missing cards of every
\* completable suit, in suit order.
RECURSIVE missingCardsPerCompletableSuit(_, _, _)
missingCardsPerCompletableSuit(scorePerStack, maxScorePerStack, stackSize) ==
    IF scorePerStack = <<>>
    THEN <<>>
    ELSE LET stackScore == Head(scorePerStack)
             stackMaxScore == Head(maxScorePerStack)
             rest == missingCardsPerCompletableSuit(Tail(scorePerStack),
                                                    Tail(maxScorePerStack), stackSize)
         IN  IF stackMaxScore = stackSize /\ stackScore < stackSize
             THEN <<stackMaxScore - stackScore>> \o rest
             ELSE rest

RECURSIVE insertSorted(_, _)
insertSorted(x, sorted) ==
    IF sorted = <<>>
    THEN <<x>>
    ELSE IF x <= Head(sorted)
         THEN <<x>> \o sorted
         ELSE <<Head(sorted)>> \o insertSorted(x, Tail(sorted))

RECURSIVE sortInsertion(_)
sortInsertion(array) ==
    IF array = <<>> THEN <<>> ELSE insertSorted(Head(array), sortInsertion(Tail(array)))

sortNothing(array) == array

\* missingCardsPerCompletableSuit.sort((a, b) => a - b)
sortAscending(array) == sortInsertion(array)

\* The loop that packs the suits into the plays before the final round; it
\* breaks at the first suit that does not fit.
RECURSIVE suitsCompletedBeforeFinalRound(_, _, _)
suitsCompletedBeforeFinalRound(missingCards, cardsPlayed, minPlaysBeforeFinalRound) ==
    IF missingCards = <<>>
    THEN 0
    ELSE LET missingCardsInSuit == Head(missingCards)
         IN  IF cardsPlayed + missingCardsInSuit > minPlaysBeforeFinalRound
             THEN 0
             ELSE 1 + suitsCompletedBeforeFinalRound(Tail(missingCards),
                          cardsPlayed + missingCardsInSuit, minPlaysBeforeFinalRound)

cluesFromSuits(missingScore, scorePerStack, maxScorePerStack, stackSize, deckSize, endGameLength, suitValue) ==
    IF suitValue > 0
    THEN LET playsDuringFinalRound ==
                 getMaxPlaysDuringFinalRound(missingScore, endGameLength)
             minPlaysBeforeFinalRound ==
                 getMaxPlays(missingScore, deckSize, endGameLength)
                 - playsDuringFinalRound
             missingCards ==
                 sortAscending(missingCardsPerCompletableSuit(
                                   scorePerStack, maxScorePerStack, stackSize))
         IN  suitsCompletedBeforeFinalRound(missingCards, 0, minPlaysBeforeFinalRound)
             * suitValue
    ELSE 0

getCluesStillUsableDeckFirst(score, scorePerStack, maxScorePerStack, stackSize, deckSize, endGameLength, discardValue, suitValue, currentClues) ==
    IF deckSize <= 0
    THEN Null
    ELSE IF Len(scorePerStack) # Len(maxScorePerStack)
         THEN Throw
         ELSE IF discardValue < suitValue
              THEN Throw
              ELSE LET missingScore == sumArray(maxScorePerStack) - score
                   IN  Number(getMaxDiscardsBeforeFinalRound(missingScore, deckSize,
                                  endGameLength) * discardValue
                              + cluesFromSuits(missingScore, scorePerStack,
                                    maxScorePerStack, stackSize, deckSize,
                                    endGameLength, suitValue)
                              + currentClues)

getCluesStillUsableNotRounded(score, scorePerStack, maxScorePerStack, stackSize, deckSize, endGameLength, discardValue, suitValue, currentClues) ==
    IF Len(scorePerStack) # Len(maxScorePerStack)
    THEN Throw
    ELSE IF discardValue < suitValue
         THEN Throw
         ELSE IF deckSize <= 0
              THEN Null
              ELSE LET maxScore == sumArray(maxScorePerStack)
                       missingScore == maxScore - score
                       maxDiscardsBeforeFinalRound ==
                           getMaxDiscardsBeforeFinalRound(missingScore, deckSize,
                                                          endGameLength)
                       cluesFromDiscards == maxDiscardsBeforeFinalRound * discardValue
                   IN  Number(cluesFromDiscards
                              + cluesFromSuits(missingScore, scorePerStack,
                                    maxScorePerStack, stackSize, deckSize,
                                    endGameLength, suitValue)
                              + currentClues)

(***************************************************************************)
(* SpecClues: one call of getCluesStillUsableNotRounded.                   *)
(***************************************************************************)
SeqsUpTo(S, n) == UNION { [1..k -> S] : k \in 0..n }

\* discardValue is a whole or a half clue; suitValue is the same or nothing
\* (Throw It in a Hole); a suit worth more than a discard is unsupported.
ClueValues == { <<2, 2>>, <<2, 0>>, <<1, 1>>, <<1, 0>>, <<1, 2>> }
CurrentClues == {0, 3}

\* The stacks of a game: each stack's score is at most its maximum score, which
\* is at most the stack size; the score is the sum of the stacks.
StackArgs ==
    { st \in [ scorePerStack : SeqsUpTo(0..MaxStackSize, MaxSuits),
               maxScorePerStack : SeqsUpTo(0..MaxStackSize, MaxSuits) ] :
        /\ Len(st.scorePerStack) = Len(st.maxScorePerStack)
        /\ \A i \in 1..Len(st.scorePerStack) :
              st.scorePerStack[i] <= st.maxScorePerStack[i] }

\* A caller's slip: one array is a suit shorter than the other.
DropLast(array) == SubSeq(array, 1, Len(array) - 1)
MismatchedStackArgs ==
    { [ scorePerStack |-> st.scorePerStack,
        maxScorePerStack |-> DropLast(st.maxScorePerStack) ] :
          st \in { x \in StackArgs : x.scorePerStack # <<>> } }
    \cup
    { [ scorePerStack |-> DropLast(st.scorePerStack),
        maxScorePerStack |-> st.maxScorePerStack ] :
          st \in { x \in StackArgs : x.scorePerStack # <<>> } }

InitClues ==
    /\ \E st \in StackArgs \cup MismatchedStackArgs,
          d \in -1..MaxDeckSize, e \in 0..MaxEndGameLength,
          v \in ClueValues, c \in CurrentClues :
            args = [ score |-> sumArray(st.scorePerStack),
                     scorePerStack |-> st.scorePerStack,
                     maxScorePerStack |-> st.maxScorePerStack,
                     stackSize |-> MaxStackSize,
                     deckSize |-> d,
                     endGameLength |-> e,
                     discardValue |-> v[1],
                     suitValue |-> v[2],
                     currentClues |-> c ]
    /\ stats = NoStats
    /\ NoGame

CallGetCluesStillUsableNotRounded ==
    /\ stats.cluesStillUsable = Unset
    /\ stats' = [stats EXCEPT !.cluesStillUsable =
                    getCluesStillUsableNotRounded(args.score, args.scorePerStack,
                        args.maxScorePerStack, args.stackSize, args.deckSize,
                        args.endGameLength, args.discardValue, args.suitValue,
                        args.currentClues)]
    /\ UNCHANGED <<args, gameVars>>

NextClues == CallGetCluesStillUsableNotRounded

SpecClues == InitClues /\ [][NextClues]_vars

(***************************************************************************)
(* The game the statistics are computed on.  The rule modules stats.ts     *)
(* imports (card, deck, hand) and the reducers that fold actions into the  *)
(* game state are modelled from the specification; the stats functions are *)
(* translated from stats.ts.                                               *)
(*                                                                         *)
(* Games have two players with two cards per hand.  A normal suit has      *)
(* three 1s, one card of the top rank and two of every rank between; a     *)
(* one-of-each suit has one card of every rank.  We are player 0 and do    *)
(* not see our own cards.                                                  *)
(***************************************************************************)
NumHands == 2
CardsPerHand == 2
OurPlayerIndex == 0
MaxClueTokens == 2
MaxTurns == 3
MaxNotes == 1

Red == [ name |-> "Red", oneOfEach |-> FALSE ]
Black == [ name |-> "Black", oneOfEach |-> TRUE ]

\* One suit of three ranks: the variant of the games played in Spec.
OneSuit ==
    [ suits |-> <<Red>>, stackSize |-> 3, throwItInAHole |-> FALSE, maxScore |-> 3 ]

\* Two suits of two ranks: the variant of the positions of SpecGotten and SpecNotes.
TwoSuits(throwItInAHole) ==
    [ suits |-> <<Red, Black>>, stackSize |-> 2, throwItInAHole |-> throwItInAHole,
      maxScore |-> 4 ]

\* Arrays are indexed from 0 in the program and from 1 in a sequence.
At(array, index) == array[index + 1]
IsDefinedAt(array, index) == index \in 0..(Len(array) - 1)

\* Every (suitIndex, rank) of the variant.
AllCards(variant) ==
    { <<suitIndex, rank>> : suitIndex \in 0..(Len(variant.suits) - 1), rank \in 1..variant.stackSize }

\* CardState.location
InHand(playerIndex) == [ kind |-> "hand", playerIndex |-> playerIndex ]
OnPlayStack == [ kind |-> "playStack", playerIndex |-> 0 ]
InDiscard == [ kind |-> "discard", playerIndex |-> 0 ]

(***************************************************************************)
(* Deck, card and hand rules.                                              *)
(***************************************************************************)
getNumCopiesOfCard(suit, rank, variant) ==
    IF suit.oneOfEach
    THEN 1
    ELSE IF rank = 1
         THEN 3
         ELSE IF rank = variant.stackSize THEN 1 ELSE 2

getNumDiscardedCopiesOfCard(deck, suitIndex, rank) ==
    Cardinality({ i \in 1..Len(deck) :
                    /\ deck[i].suitIndex = Number(suitIndex)
                    /\ deck[i].rank = Number(rank)
                    /\ deck[i].location = InDiscard })

\* Not played yet, and not dead: no card up to it has all its copies discarded.
isCardNeedsToBePlayed(suitIndex, rank, deck, playStacks, variant) ==
    /\ ~ \E i \in 1..Len(At(playStacks, suitIndex)) :
            At(deck, At(playStacks, suitIndex)[i]).rank = Number(rank)
    /\ ~ \E r \in 1..rank :
            getNumDiscardedCopiesOfCard(deck, suitIndex, r)
                = getNumCopiesOfCard(At(variant.suits, suitIndex), r, variant)

isAllCardPossibilitiesTrash(cardState, deck, playStacks, variant) ==
    \A card \in cardState.possibleCardsFromClues :
        ~isCardNeedsToBePlayed(card[1], card[2], deck, playStacks, variant)

isCardInPlayerHand(cardState) == cardState.location.kind = "hand"

isCardClued(cardState) == cardState.numPositiveClues > 0

isHandLocked(hand, deck) ==
    \A i \in 1..Len(hand) : isCardClued(At(deck, hand[i]))

(***************************************************************************)
(* stats.ts: getCardsGotten.                                               *)
(***************************************************************************)
\* The loop over the deck, up to its first n cards.
RECURSIVE countCardsGotten(_, _, _, _, _, _)
countCardsGotten(n, deck, playStacks, playing, shadowing, variant) ==
    IF n = 0
    THEN 0
    ELSE LET cardState == deck[n]
             before == countCardsGotten(n - 1, deck, playStacks, playing, shadowing, variant)
         IN  IF \/ cardState.location = OnPlayStack
                \/ /\ cardState.location = InDiscard
                   /\ cardState.isMisplayed
                   /\ variant.throwItInAHole
                   /\ (playing \/ shadowing)
             THEN before + 1
             ELSE IF /\ isCardInPlayerHand(cardState)
                     /\ isCardClued(cardState)
                     /\ ~isAllCardPossibilitiesTrash(cardState, deck, playStacks, variant)
                  THEN before + 1
                  ELSE before

getCardsGottenNoClamp(deck, playStacks, playing, shadowing, maxScore, variant) ==
    countCardsGotten(Len(deck), deck, playStacks, playing, shadowing, variant)

getCardsGotten(deck, playStacks, playing, shadowing, maxScore, variant) ==
    LET currentCardsGotten ==
            countCardsGotten(Len(deck), deck, playStacks, playing, shadowing, variant)
    IN  IF currentCardsGotten > maxScore THEN maxScore ELSE currentCardsGotten

(***************************************************************************)
(* stats.ts: getCardsGottenByNotes.  A note is the set of its flags; a     *)
(* card without a note is outside the domain of notes.                     *)
(***************************************************************************)
NoteFlags == {"clued", "finessed", "unclued", "knownTrash"}

getCardsGottenByNotesAdjustmentAnyFlags(cardNotes, order, cardState) ==
    IF order \notin DOMAIN cardNotes
    THEN 0
    ELSE LET note == cardNotes[order]
             isCluedForReal == isCardClued(cardState)
         IN  IF isCluedForReal /\ ("unclued" \in note \/ "knownTrash" \in note)
             THEN -1
             ELSE IF isCluedForReal
                  THEN 0
                  ELSE IF "clued" \in note \/ "finessed" \in note
                       THEN 1
                       ELSE 0

getCardsGottenByNotesAdjustment(cardNotes, order, cardState) ==
    IF order \notin DOMAIN cardNotes
    THEN 0
    ELSE LET note == cardNotes[order]
             isCluedForReal == isCardClued(cardState)
         IN  IF isCluedForReal /\ ("unclued" \in note \/ "knownTrash" \in note)
             THEN -1
             ELSE IF isCluedForReal
                  THEN 0
                  ELSE LET isCluedByNotes ==
                               /\ ("clued" \in note \/ "finessed" \in note)
                               /\ "unclued" \notin note
                               /\ "knownTrash" \notin note
                       IN  IF isCluedByNotes THEN 1 ELSE 0

\* The loop over deck.entries(), up to the first n cards.
RECURSIVE sumCardsGottenByNotes(_, _, _, _, _)
sumCardsGottenByNotes(n, deck, playStacks, variant, cardNotes) ==
    IF n = 0
    THEN 0
    ELSE LET cardState == deck[n]
             order == n - 1
             before == sumCardsGottenByNotes(n - 1, deck, playStacks, variant, cardNotes)
         IN  IF /\ isCardInPlayerHand(cardState)
                /\ ~isAllCardPossibilitiesTrash(cardState, deck, playStacks, variant)
             THEN before + getCardsGottenByNotesAdjustment(cardNotes, order, cardState)
             ELSE before

getCardsGottenByNotes(deck, playStacks, variant, cardNotes) ==
    sumCardsGottenByNotes(Len(deck), deck, playStacks, variant, cardNotes)

(***************************************************************************)
(* stats.ts: getDoubleDiscardCard.                                         *)
(***************************************************************************)
\* Another copy of the discarded card that sits in a hand, fully filled in.
IsFilledInCopy(cardInDeck, cardDiscarded) ==
    /\ cardInDeck.order # cardDiscarded.order
    /\ cardInDeck.suitIndex = cardDiscarded.suitIndex
    /\ cardInDeck.rank = cardDiscarded.rank
    /\ cardInDeck.location.kind = "hand"
    /\ Cardinality(cardInDeck.possibleCardsFromClues) = 1

getDoubleDiscardCardIgnoreLock(orderOfDiscardedCard, state, variant) ==
    IF ~IsDefinedAt(state.deck, orderOfDiscardedCard)
    THEN Null
    ELSE LET cardDiscarded == At(state.deck, orderOfDiscardedCard)
         IN  IF state.turn.currentPlayerIndex = Null
             THEN Null
             ELSE IF cardDiscarded.suitIndex = Null \/ cardDiscarded.rank = Null
             THEN Null
             ELSE IF ~isCardNeedsToBePlayed(cardDiscarded.suitIndex.value, cardDiscarded.rank.value, state.deck, state.playStacks, variant)
             THEN Null
             ELSE IF \E i \in 1..Len(state.deck) : IsFilledInCopy(state.deck[i], cardDiscarded)
             THEN Null
             ELSE IF ~IsDefinedAt(variant.suits, cardDiscarded.suitIndex.value)
             THEN Null
             ELSE IF getNumCopiesOfCard(At(variant.suits, cardDiscarded.suitIndex.value), cardDiscarded.rank.value, variant)
                     = getNumDiscardedCopiesOfCard(state.deck, cardDiscarded.suitIndex.value, cardDiscarded.rank.value) + 1
             THEN Number(orderOfDiscardedCard)
             ELSE Null

getDoubleDiscardCardNoCopyLeft(orderOfDiscardedCard, state, variant) ==
    IF ~IsDefinedAt(state.deck, orderOfDiscardedCard)
    THEN Null
    ELSE LET cardDiscarded == At(state.deck, orderOfDiscardedCard)
         IN  IF state.turn.currentPlayerIndex = Null
             THEN Null
             ELSE IF /\ Len(state.hands) > 0
                     /\ isHandLocked(At(state.hands, (state.turn.currentPlayerIndex.value + 1) % Len(state.hands)), state.deck)
             THEN Null
             ELSE IF cardDiscarded.suitIndex = Null \/ cardDiscarded.rank = Null
             THEN Null
             ELSE IF ~isCardNeedsToBePlayed(cardDiscarded.suitIndex.value, cardDiscarded.rank.value, state.deck, state.playStacks, variant)
             THEN Null
             ELSE IF \E i \in 1..Len(state.deck) : IsFilledInCopy(state.deck[i], cardDiscarded)
             THEN Null
             ELSE IF ~IsDefinedAt(variant.suits, cardDiscarded.suitIndex.value)
             THEN Null
             ELSE IF getNumCopiesOfCard(At(variant.suits, cardDiscarded.suitIndex.value), cardDiscarded.rank.value, variant)
                     = getNumDiscardedCopiesOfCard(state.deck, cardDiscarded.suitIndex.value, cardDiscarded.rank.value)
             THEN Number(orderOfDiscardedCard)
             ELSE Null

getDoubleDiscardCard(orderOfDiscardedCard, state, variant) ==
    IF ~IsDefinedAt(state.deck, orderOfDiscardedCard)
    THEN Null
    ELSE LET cardDiscarded == At(state.deck, orderOfDiscardedCard)
         IN  \* It is never a double discard situation if the game is over.
             IF state.turn.currentPlayerIndex = Null
             THEN Null
             \* ... if the next player has a positive clue on every card in their
             \* hand (hands[nextPlayerIndex] is undefined only without any hand).
             ELSE IF /\ Len(state.hands) > 0
                     /\ isHandLocked(At(state.hands, (state.turn.currentPlayerIndex.value + 1) % Len(state.hands)), state.deck)
             THEN Null
             \* ... if we do not know the identity of the discarded card.
             ELSE IF cardDiscarded.suitIndex = Null \/ cardDiscarded.rank = Null
             THEN Null
             \* ... if the discarded card does not need to be played.
             ELSE IF ~isCardNeedsToBePlayed(cardDiscarded.suitIndex.value, cardDiscarded.rank.value, state.deck, state.playStacks, variant)
             THEN Null
             \* ... if a copy of the card in a hand is fully filled in from clues.
             ELSE IF \E i \in 1..Len(state.deck) : IsFilledInCopy(state.deck[i], cardDiscarded)
             THEN Null
             ELSE IF ~IsDefinedAt(variant.suits, cardDiscarded.suitIndex.value)
             THEN Null
             \* Otherwise, it is one if there is only one copy of the card left.
             ELSE IF getNumCopiesOfCard(At(variant.suits, cardDiscarded.suitIndex.value), cardDiscarded.rank.value, variant)
                     = getNumDiscardedCopiesOfCard(state.deck, cardDiscarded.suitIndex.value, cardDiscarded.rank.value) + 1
             THEN Number(orderOfDiscardedCard)
             ELSE Null

(***************************************************************************)
(* The reducers: one game action is folded into the game state and the     *)
(* statistics are recomputed from the new state.                           *)
(***************************************************************************)
statsReducer(previous, act, state, cardNotes) ==
    [ previous EXCEPT
        !.cardsGotten =
            getCardsGotten(state.deck, state.playStacks, args.playing, args.shadowing, OneSuit.maxScore, OneSuit),
        !.cardsGottenByNotes =
            getCardsGottenByNotes(state.deck, state.playStacks, OneSuit, cardNotes),
        !.doubleDiscardCard =
            CASE act.type = "discard" ->
                    getDoubleDiscardCard(act.order, state, OneSuit)
              [] act.type \in {"play", "clue"} -> Null
              [] OTHER -> previous.doubleDiscardCard ]

Fold(newState, newAction) ==
    /\ gameState' = newState
    /\ action' = newAction
    /\ stats' = statsReducer(stats, newAction, newState, notes)
    /\ UNCHANGED <<args, notes, uiVars>>

NewCard(order, playerIndex, card, variant) ==
    [ order |-> order,
      suitIndex |-> IF playerIndex = OurPlayerIndex THEN Null ELSE Number(card[1]),
      rank |-> IF playerIndex = OurPlayerIndex THEN Null ELSE Number(card[2]),
      location |-> InHand(playerIndex),
      numPositiveClues |-> 0,
      possibleCardsFromClues |-> AllCards(variant),
      isMisplayed |-> FALSE ]

Revealed(cardState) ==
    [ cardState EXCEPT
        !.suitIndex = Number(At(server.identity, cardState.order)[1]),
        !.rank = Number(At(server.identity, cardState.order)[2]) ]

NoNotes == [ order \in {} |-> {} ]

DeckIsEmpty == \A card \in DOMAIN server.drawPile : server.drawPile[card] = 0

CopiesOf(card, variant) ==
    getNumCopiesOfCard(At(variant.suits, card[1]), card[2], variant)

\* The deals of a shuffled deck: no card more often than the variant has it.
Deals ==
    { dealt \in [ 1..(NumHands * CardsPerHand) -> AllCards(OneSuit) ] :
        \A card \in AllCards(OneSuit) :
            Cardinality({ i \in DOMAIN dealt : dealt[i] = card }) <= CopiesOf(card, OneSuit) }

InitGame ==
    /\ \E dealt \in Deals :
        /\ gameState =
             [ deck |-> [ i \in 1..(NumHands * CardsPerHand) |->
                            NewCard(i - 1, (i - 1) \div CardsPerHand, dealt[i], OneSuit) ],
               hands |-> [ p \in 1..NumHands |->
                            [ j \in 1..CardsPerHand |-> (p - 1) * CardsPerHand + j - 1 ] ],
               playStacks |-> [ s \in 1..Len(OneSuit.suits) |-> <<>> ],
               turn |-> [ currentPlayerIndex |-> Number(0), turnNum |-> 0 ],
               clueTokens |-> MaxClueTokens ]
        /\ server =
             [ drawPile |-> [ card \in AllCards(OneSuit) |->
                                CopiesOf(card, OneSuit)
                                - Cardinality({ i \in DOMAIN dealt : dealt[i] = card }) ],
               identity |-> dealt ]
    /\ action = [ type |-> "turn", order |-> 0, playerIndex |-> 0 ]
    /\ notes = NoNotes
    /\ args = [ playing |-> TRUE, shadowing |-> FALSE ]
    /\ stats = NoStats
    /\ NoUi

CanMove ==
    /\ action.type = "turn"
    /\ gameState.turn.currentPlayerIndex # Null
    /\ gameState.turn.turnNum < MaxTurns

\* The turn after a discard: the player index is null when it ended the game.
TurnAfter(last) ==
    IF last
    THEN [ gameState.turn EXCEPT !.currentPlayerIndex = Null ]
    ELSE gameState.turn

HandOf(playerIndex) ==
    { At(gameState.hands, playerIndex)[i] : i \in 1..Len(At(gameState.hands, playerIndex)) }

\* The clues of a variant: a rank or a colour.
Clues(variant) ==
    [ type : {"rank"}, value : 1..variant.stackSize ]
        \cup [ type : {"colour"}, value : 0..(Len(variant.suits) - 1) ]

ClueTouches(clue, card) ==
    IF clue.type = "rank" THEN card[2] = clue.value ELSE card[1] = clue.value

\* A clue to another player: it touches at least one card of the hand, and
\* every card of the hand keeps the identities that agree with the clue.
Clue(target, clue) ==
    /\ CanMove
    /\ gameState.clueTokens > 0
    /\ target # gameState.turn.currentPlayerIndex.value
    /\ \E order \in HandOf(target) : ClueTouches(clue, At(server.identity, order))
    /\ LET playerIndex == gameState.turn.currentPlayerIndex.value
           clued(cardState) ==
               LET touched == ClueTouches(clue, At(server.identity, cardState.order))
                   possible == { card \in cardState.possibleCardsFromClues :
                                   ClueTouches(clue, card) = touched }
               IN  [ (IF Cardinality(possible) = 1 THEN Revealed(cardState) ELSE cardState) EXCEPT
                       !.numPositiveClues = IF touched THEN @ + 1 ELSE @,
                       !.possibleCardsFromClues = possible ]
       IN  Fold([ gameState EXCEPT
                    !.deck = [ i \in 1..Len(@) |->
                                 IF @[i].location = InHand(target) THEN clued(@[i]) ELSE @[i] ],
                    !.clueTokens = @ - 1 ],
                [ type |-> "clue", order |-> 0, playerIndex |-> playerIndex ])
    /\ UNCHANGED server

Play(order) ==
    /\ CanMove
    /\ IsDefinedAt(gameState.deck, order)
    /\ LET cardState == At(gameState.deck, order)
           playerIndex == gameState.turn.currentPlayerIndex.value
           card == At(server.identity, order)
           playable == card[2] = Len(At(gameState.playStacks, card[1])) + 1
           played == [ Revealed(cardState) EXCEPT
                         !.location = IF playable THEN OnPlayStack ELSE InDiscard,
                         !.isMisplayed = ~playable ]
       IN  /\ cardState.location = InHand(playerIndex)
           /\ Fold([ gameState EXCEPT
                       !.deck[order + 1] = played,
                       !.hands[playerIndex + 1] = SelectSeq(@, LAMBDA o : o # order),
                       !.playStacks[card[1] + 1] = IF playable THEN Append(@, order) ELSE @ ],
                   [ type |-> "play", order |-> order, playerIndex |-> playerIndex ])
    /\ UNCHANGED server

\* A discard, which no player may make with all clue tokens left; the identity
\* of a card we did not know may stay unknown.
Discard(order, reveal, last) ==
    /\ CanMove
    /\ gameState.clueTokens < MaxClueTokens
    /\ IsDefinedAt(gameState.deck, order)
    /\ LET cardState == At(gameState.deck, order)
           playerIndex == gameState.turn.currentPlayerIndex.value
           discarded == [ (IF reveal THEN Revealed(cardState) ELSE cardState) EXCEPT
                            !.location = InDiscard ]
       IN  /\ cardState.location = InHand(playerIndex)
           /\ reveal \/ cardState.suitIndex = Null
           /\ Fold([ gameState EXCEPT
                       !.deck[order + 1] = discarded,
                       !.hands[playerIndex + 1] = SelectSeq(@, LAMBDA o : o # order),
                       !.clueTokens = @ + 1,
                       !.turn = TurnAfter(last) ],
                   [ type |-> "discard", order |-> order, playerIndex |-> playerIndex ])
    /\ UNCHANGED server

\* The player who moved draws while the deck lasts, and the turn passes on.
EndTurn ==
    /\ action.type \in {"clue", "play", "discard"}
    /\ gameState.turn.currentPlayerIndex # Null
    /\ LET playerIndex == action.playerIndex
           order == Len(gameState.deck)
           nextTurn == [ currentPlayerIndex |-> Number((playerIndex + 1) % NumHands),
                         turnNum |-> gameState.turn.turnNum + 1 ]
           turned == [ type |-> "turn", order |-> 0, playerIndex |-> playerIndex ]
       IN  IF Len(At(gameState.hands, playerIndex)) < CardsPerHand /\ ~DeckIsEmpty
           THEN \E card \in DOMAIN server.drawPile :
                  /\ server.drawPile[card] > 0
                  /\ server' = [ server EXCEPT !.drawPile[card] = @ - 1,
                                               !.identity = Append(@, card) ]
                  /\ Fold([ gameState EXCEPT
                              !.deck = Append(@, NewCard(order, playerIndex, card, OneSuit)),
                              !.hands[playerIndex + 1] = Append(@, order),
                              !.turn = nextTurn ],
                          turned)
           ELSE /\ UNCHANGED server
                /\ Fold([ gameState EXCEPT !.turn = nextTurn ], turned)

Next ==
    \/ \E target \in 0..(NumHands - 1), clue \in Clues(OneSuit) : Clue(target, clue)
    \/ \E playerIndex \in 0..(NumHands - 1) :
          \E order \in HandOf(playerIndex) : Play(order)
    \/ \E playerIndex \in 0..(NumHands - 1), reveal \in BOOLEAN, last \in BOOLEAN :
          \E order \in HandOf(playerIndex) : Discard(order, reveal, last)
    \/ EndTurn

Spec == InitGame /\ [][Next]_vars

(***************************************************************************)
(* Positions: the game state when the first five cards of a two-suit deck  *)
(* have been drawn, given by where each card is.  A card in a hand is      *)
(* unclued, clued, clued and filled in, or filled in by negative clues     *)
(* only ("handKnown").                                                     *)
(***************************************************************************)
TwoSuitsDeck == << <<0, 1>>, <<0, 1>>, <<0, 2>>, <<1, 1>>, <<1, 2>> >>

InHandSlots == {"hand", "handClued", "handFilled", "handKnown"}
Slots == {"playStack", "discard", "misplayed"} \cup InHandSlots

\* Every player holds a card, and a play stack holds the ranks 1..n once each.
IsPosition(layout) ==
    /\ Cardinality({ i \in DOMAIN layout : layout[i] \in InHandSlots }) \in NumHands..(NumHands * CardsPerHand)
    /\ \A s \in 0..(Len(TwoSuits(FALSE).suits) - 1) :
          LET on == { i \in DOMAIN layout : layout[i] = "playStack" /\ TwoSuitsDeck[i][1] = s }
          IN  /\ \A i, j \in on : TwoSuitsDeck[i][2] = TwoSuitsDeck[j][2] => i = j
              /\ \A i \in on : \A r \in 1..(TwoSuitsDeck[i][2] - 1) :
                    \E j \in on : TwoSuitsDeck[j][2] = r

\* The cards in hands go to the players in turn, in the order they were drawn.
HolderOf(layout, i) ==
    Cardinality({ j \in 1..(i - 1) : layout[j] \in InHandSlots }) % NumHands

PositionOf(layout) ==
    LET variant == TwoSuits(FALSE)
        filled(i) == layout[i] \in {"handFilled", "handKnown"}
        seen(i) == \/ layout[i] \notin InHandSlots
                   \/ HolderOf(layout, i) # OurPlayerIndex
                   \/ filled(i)
        deck == [ i \in DOMAIN layout |->
                    [ order |-> i - 1,
                      suitIndex |-> IF seen(i) THEN Number(TwoSuitsDeck[i][1]) ELSE Null,
                      rank |-> IF seen(i) THEN Number(TwoSuitsDeck[i][2]) ELSE Null,
                      location |-> IF layout[i] \in InHandSlots
                                   THEN InHand(HolderOf(layout, i))
                                   ELSE IF layout[i] = "playStack" THEN OnPlayStack ELSE InDiscard,
                      numPositiveClues |-> IF layout[i] \in {"handClued", "handFilled"} THEN 1 ELSE 0,
                      possibleCardsFromClues |-> IF filled(i) THEN { TwoSuitsDeck[i] } ELSE AllCards(variant),
                      isMisplayed |-> layout[i] = "misplayed" ] ]
        orders == [ i \in DOMAIN layout |-> i - 1 ]
    IN  [ deck |-> deck,
          hands |-> [ p \in 1..NumHands |->
                        SelectSeq(orders, LAMBDA o : deck[o + 1].location = InHand(p - 1)) ],
          playStacks |-> [ s \in 1..Len(variant.suits) |->
                        [ r \in 1..Cardinality({ i \in DOMAIN layout :
                                                   layout[i] = "playStack" /\ TwoSuitsDeck[i][1] = s - 1 }) |->
                            (CHOOSE i \in DOMAIN layout :
                                layout[i] = "playStack" /\ TwoSuitsDeck[i] = <<s - 1, r>>) - 1 ] ],
          turn |-> [ currentPlayerIndex |-> Number(0), turnNum |-> 0 ],
          clueTokens |-> 0 ]

InitPosition(layout) ==
    /\ gameState = PositionOf(layout)
    /\ server = [ drawPile |-> <<>>, identity |-> TwoSuitsDeck ]
    /\ action = [ type |-> "none", order |-> 0, playerIndex |-> 0 ]
    /\ notes = NoNotes
    /\ args = [ type |-> "none" ]
    /\ stats = NoStats
    /\ NoUi

(***************************************************************************)
(* SpecGotten: one call of getCardsGotten on a position.                   *)
(***************************************************************************)
\* The maximum score of the two-suit variant, and of the 5-suit No Variant.
MaxScores == { TwoSuits(FALSE).maxScore, NoVariantPaceArgs.maxScore }

InitGotten ==
    \E layout \in [ 1..Len(TwoSuitsDeck) -> Slots \ {"handKnown"} ] :
        IsPosition(layout) /\ InitPosition(layout)

CallGetCardsGotten ==
    /\ args.type = "none"
    /\ \E playing \in BOOLEAN, shadowing \in BOOLEAN, throwItInAHole \in BOOLEAN, maxScore \in MaxScores :
          /\ args' = [ type |-> "getCardsGotten", playing |-> playing, shadowing |-> shadowing,
                       throwItInAHole |-> throwItInAHole, maxScore |-> maxScore ]
          /\ stats' = [ stats EXCEPT !.cardsGotten =
                          getCardsGotten(gameState.deck, gameState.playStacks, playing, shadowing,
                                         maxScore, TwoSuits(throwItInAHole)) ]
    /\ UNCHANGED gameVars

NextGotten == CallGetCardsGotten

SpecGotten == InitGotten /\ [][NextGotten]_vars

(***************************************************************************)
(* SpecNotes: notes are written on the cards of a position with three      *)
(* cards in hands, and the cards gotten by notes are recounted after each. *)
(***************************************************************************)
InitNotes ==
    \E a \in InHandSlots, b \in InHandSlots, c \in InHandSlots :
        InitPosition(<<"playStack", a, b, c, "discard">>)

\* The first note on a card, on up to MaxNotes cards.
WriteNote(order, note) ==
    /\ order \notin DOMAIN notes
    /\ Cardinality(DOMAIN notes) < MaxNotes
    /\ notes' = [ o \in DOMAIN notes \cup {order} |-> IF o = order THEN note ELSE notes[o] ]
    /\ stats' = [ stats EXCEPT !.cardsGottenByNotes =
                    getCardsGottenByNotes(gameState.deck, gameState.playStacks, TwoSuits(FALSE), notes') ]
    /\ UNCHANGED <<args, gameState, server, action, uiVars>>

NextNotes ==
    \E order \in 0..(Len(TwoSuitsDeck) - 1), note \in SUBSET NoteFlags : WriteNote(order, note)

SpecNotes == InitNotes /\ [][NextNotes]_vars

(***************************************************************************)
(* StateObserver (src/unnamed/part_000): the subscriptions it registers,   *)
(* in the order it registers them, and the store observer that runs them.  *)
(* observeStore is not part of the sources; it is modelled from the        *)
(* specification: after each state transition the (selector, listener)     *)
(* pairs are evaluated in list order and a listener is called when its     *)
(* selected projection is not deep-equal to what it was.                   *)
(***************************************************************************)
MaxChanged == 3

\* sub(select, onChange) and vs(select, onChange): a vs selector reads fields
\* of state.visibleState, a sub selector reads the state itself.
sub(fields, listener) == [ on |-> "state", fields |-> fields, onChange |-> listener ]
vs(fields, listener) == [ on |-> "visibleState", fields |-> fields, onChange |-> listener ]

SubscriptionsPlayStacksFirst ==
    << vs({"turn"}, "onTurnChanged"),
       vs({"currentPlayerIndex"}, "onCurrentPlayerIndexChanged"),
       vs({"score", "maxScore"}, "onScoreOrMaxScoreChanged"),
       vs({"clueTokens"}, "onClueTokensChanged"),
       vs({"efficiency"}, "onEfficiencyChanged"),
       vs({"pace", "paceRisk"}, "onPaceOrPaceRiskChanged"),
       vs({"log"}, "onLogChanged"),
       vs({"playStacks"}, "onPlayStacksChanged"),
       vs({"hands"}, "onHandsChanged"),
       vs({"discardStacks"}, "onDiscardStacksChanged"),
       vs({"playStacksDirections"}, "onStackDirectionsChanged"),
       vs({"clues", "turn"}, "onCluesChanged"),
       vs({"deckLength"}, "onDeckChanged"),
       sub({"visibleState"}, "onInitializationChanged") >>

Subscriptions ==
    << vs({"turn"}, "onTurnChanged"),
       vs({"currentPlayerIndex"}, "onCurrentPlayerIndexChanged"),
       vs({"score", "maxScore"}, "onScoreOrMaxScoreChanged"),
       vs({"clueTokens"}, "onClueTokensChanged"),
       vs({"efficiency"}, "onEfficiencyChanged"),
       vs({"pace", "paceRisk"}, "onPaceOrPaceRiskChanged"),
       vs({"log"}, "onLogChanged"),
       vs({"hands"}, "onHandsChanged"),
       vs({"discardStacks"}, "onDiscardStacksChanged"),
       vs({"playStacks"}, "onPlayStacksChanged"),
       vs({"playStacksDirections"}, "onStackDirectionsChanged"),
       vs({"clues", "turn"}, "onCluesChanged"),
       vs({"deckLength"}, "onDeckChanged"),
       sub({"visibleState"}, "onInitializationChanged") >>

\* The fields of the visible state that some subscription selects.  The score
\* changes with the maximum score and the pace with the pace risk as one field.
VisibleStateFields ==
    { "turn", "currentPlayerIndex", "score", "clueTokens", "efficiency", "pace", "log",
      "hands", "discardStacks", "playStacks", "playStacksDirections", "clues", "deckLength" }

\* The sets of fields one state transition changes.
ChangedSets == { changed \in SUBSET VisibleStateFields : Cardinality(changed) <= MaxChanged }

\* Whether the projection a subscription selects changed in a transition: a
\* selector on a visible state that is not there selects undefined.
selectionChanged(subscription, wasVisible, isVisible, changed) ==
    IF subscription.on = "state"
    THEN wasVisible # isVisible
    ELSE IF wasVisible /\ isVisible
         THEN subscription.fields \cap changed # {}
         ELSE wasVisible # isVisible

\* observeStore's change handler: the listeners it calls, in the order of the calls.
handleChange(subscriptions, wasVisible, isVisible, changed) ==
    LET notified == SelectSeq(subscriptions,
                              LAMBDA s : selectionChanged(s, wasVisible, isVisible, changed))
    IN  [ i \in 1..Len(notified) |-> notified[i].onChange ]

InitObserver ==
    /\ args = [ type |-> "none" ]
    /\ stats = NoStats
    /\ NoGame

\* The visible state becomes valid: every field of it is new.
Initialize ==
    /\ ~observer.visibleState
    /\ observer' = [ visibleState |-> TRUE,
                     changed |-> VisibleStateFields,
                     called |-> handleChange(Subscriptions, FALSE, TRUE, VisibleStateFields) ]
    /\ UNCHANGED <<args, stats, gameState, server, action, notes, clues, clueLog>>

\* An action is folded into the state, and the observers run before the
\* dispatch returns.
Dispatch(changed) ==
    /\ observer.visibleState
    /\ observer' = [ visibleState |-> TRUE,
                     changed |-> changed,
                     called |-> handleChange(Subscriptions, TRUE, TRUE, changed) ]
    /\ UNCHANGED <<args, stats, gameState, server, action, notes, clues, clueLog>>

NextObserver ==
    \/ Initialize
    \/ \E changed \in ChangedSets : Dispatch(changed)

SpecObserver == InitObserver /\ [][NextObserver]_vars

(***************************************************************************)
(* cluesView.ts: updateLog.  A clue stands for its deep-equality class.    *)
(* The clue log (ClueLog, not part of the sources) keeps its entries in    *)
(* children; updateClue replaces the entry at an index and addClue appends *)
(* one, dropping the oldest entries beyond maxLength.  An entry remembers  *)
(* whether the last call of updateLog constructed it, and the log what its *)
(* entries were when that call began.                                      *)
(***************************************************************************)
MaxLogLength == 2
MaxClues == 3
NumClueKinds == 2

StateClues == 1..NumClueKinds

ClueEntry(clue) == [ clue |-> clue, isNew |-> TRUE ]

updateClue(children, index, entry) ==
    [ children EXCEPT ![index + 1] = entry ]

addClue(children, entry, maxLength) ==
    LET added == Append(children, entry)
    IN  IF Len(added) > maxLength
        THEN SubSeq(added, Len(added) - maxLength + 1, Len(added))
        ELSE added

\* The loop over clues.slice(startingIndex).entries(), from entry i on.
RECURSIVE updateLogEntries(_, _, _, _)
updateLogEntries(i, slice, children, maxLength) ==
    IF i >= Len(slice)
    THEN children
    ELSE LET clue == slice[i + 1]
         IN  IF i < Len(children) /\ clue = children[i + 1].clue
             THEN updateLogEntries(i + 1, slice, children, maxLength)
             ELSE LET entry == ClueEntry(clue)
                  IN  IF i < Len(children)
                      THEN updateLogEntries(i + 1, slice, updateClue(children, i, entry), maxLength)
                      ELSE updateLogEntries(i + 1, slice, addClue(children, entry, maxLength), maxLength)

updateLogKeepLeftOver(newClues, log) ==
    IF log = Null
    THEN Null
    ELSE LET startingIndex == Max(0, Len(newClues) - log.maxLength)
             existing == [ i \in 1..Len(log.children) |-> [ log.children[i] EXCEPT !.isNew = FALSE ] ]
         IN  [ log EXCEPT
                 !.children = updateLogEntries(0, SubSeq(newClues, startingIndex + 1, Len(newClues)),
                                               existing, log.maxLength),
                 !.previous = log.children ]

updateLog(newClues, log) ==
    IF log = Null
    THEN Null
    ELSE LET startingIndex == Max(0, Len(newClues) - log.maxLength)
             existing == [ i \in 1..Len(log.children) |-> [ log.children[i] EXCEPT !.isNew = FALSE ] ]
             updated == updateLogEntries(0, SubSeq(newClues, startingIndex + 1, Len(newClues)),
                                         existing, log.maxLength)
         IN  [ log EXCEPT
                 \* Delete any left over clues.
                 !.children = IF Len(updated) > Len(newClues)
                              THEN SubSeq(updated, 1, Len(newClues))
                              ELSE updated,
                 !.previous = log.children ]

onCluesChanged(newClues) ==
    /\ clues' = newClues
    /\ clueLog' = updateLog(newClues, clueLog)
    /\ UNCHANGED <<args, stats, gameState, server, action, notes, observer>>

\* The user interface is built with an empty clue log, or is not built.
InitClueLog ==
    /\ args = [ type |-> "none" ]
    /\ stats = NoStats
    /\ gameState = [ deck |-> <<>>, hands |-> <<>>, playStacks |-> <<>>,
                     turn |-> [ currentPlayerIndex |-> Null, turnNum |-> 0 ],
                     clueTokens |-> 0 ]
    /\ server = [ drawPile |-> <<>>, identity |-> <<>> ]
    /\ action = [ type |-> "none", order |-> 0, playerIndex |-> 0 ]
    /\ notes = <<>>
    /\ observer = [ visibleState |-> FALSE, changed |-> {}, called |-> <<>> ]
    /\ clues = <<>>
    /\ \/ clueLog = Null
       \/ \E maxLength \in 1..MaxLogLength :
             clueLog = [ maxLength |-> maxLength, children |-> <<>>, previous |-> <<>> ]

\* A clue is given.
AppendClue(clue) ==
    /\ Len(clues) < MaxClues
    /\ onCluesChanged(Append(clues, clue))

\* The game is rewound to an earlier turn.
Rewind(length) ==
    /\ length < Len(clues)
    /\ onCluesChanged(SubSeq(clues, 1, length))

\* A replay jumps to another turn, or to a turn of a hypothetical.
Jump(newClues) ==
    /\ newClues # clues
    /\ onCluesChanged(newClues)

NextClueLog ==
    \/ \E clue \in StateClues : AppendClue(clue)
    \/ \E length \in 0..MaxClues : Rewind(length)
    \/ \E length \in 0..MaxClues : \E newClues \in [ 1..length -> StateClues ] : Jump(newClues)

SpecClueLog == InitClueLog /\ [][NextClueLog]_vars

(***************************************************************************)
(* C1..C2, C10: getPace and getPaceRisk.                                   *)
(***************************************************************************)

\* C1: getPace returns null exactly when gameOver holds or deckSize <= 0, and
\* otherwise exactly score + deckSize - maxScore + endGameLength; the 5-suit
\* No Variant start (score 0, deck 40, max score 25, end game length 2) gives 17.
C1_PaceNullOrFormula ==
    stats.pace # Unset =>
        /\ (stats.pace = Null) <=> (args.gameOver \/ args.deckSize <= 0)
        /\ stats.pace # Null =>
              stats.pace = Number(args.score + args.deckSize - args.maxScore
                                  + args.endGameLength)
        /\ args = NoVariantPaceArgs => stats.pace = Number(17)

C1_Witness ==
    /\ args = NoVariantPaceArgs
    /\ stats.pace = Number(17)

\* C2: getPaceRisk is Low for a null pace, else Zero for pace <= 0, else High
\* when pace - numPlayers + floor(numPlayers / 2) < 0, else Medium when
\* pace - numPlayers < 0, else Low, the checks applied in this order.
C2_PaceRiskCases ==
    stats.paceRisk # "Unset" =>
        LET n == args.numPlayers
            p == stats.pace.value
        IN  stats.paceRisk =
              CASE stats.pace = Null -> "Low"
                [] stats.pace # Null /\ p <= 0 -> "Zero"
                [] stats.pace # Null /\ p > 0 /\ p - n + (n \div 2) < 0 -> "High"
                [] stats.pace # Null /\ p > 0 /\ p - n + (n \div 2) >= 0
                     /\ p - n < 0 -> "Medium"
                [] OTHER -> "Low"

\* A positive pace below both thresholds: High wins over Medium.
C2_Witness ==
    /\ stats.paceRisk = "High"
    /\ stats.pace # Null
    /\ stats.pace.value - args.numPlayers < 0

RiskRank(risk) ==
    CASE risk = "Low" -> 0
      [] risk = "Medium" -> 1
      [] risk = "High" -> 2
      [] risk = "Zero" -> 3

\* The integer paces the bounded arguments can produce, and one more on each side.
PaceRange ==
    (0 - MaxMaxScore - 1)..(MaxScoreArg + MaxDeckSize + MaxEndGameLength + 1)

\* C10: for a fixed number of players the risk never decreases as the pace
\* decreases (Low < Medium < High < Zero), every integer pace falls in one of
\* the four buckets, and each bucket is a contiguous range of integers.
C10_PaceRiskMonotonic ==
    (stats.paceRisk # "Unset" /\ stats.pace # Null) =>
        LET n == args.numPlayers
            p == stats.pace.value
            risk(q) == getPaceRisk(Number(q), n)
        IN  /\ stats.paceRisk \in PaceRisk
            /\ \A q \in PaceRange :
                 /\ risk(q) \in PaceRisk
                 /\ q < p => RiskRank(risk(q)) >= RiskRank(stats.paceRisk)
                 /\ q > p => RiskRank(risk(q)) <= RiskRank(stats.paceRisk)
            /\ \A q1, q2 \in PaceRange :
                 (q1 < p /\ p < q2 /\ risk(q1) = risk(q2)) =>
                     stats.paceRisk = risk(q1)

\* A state in the Medium bucket with a High pace below it and a Low pace above.
C10_Witness ==
    /\ stats.paceRisk = "Medium"
    /\ stats.pace # Null
    /\ getPaceRisk(Number(stats.pace.value - 2), args.numPlayers) = "High"
    /\ getPaceRisk(Number(stats.pace.value + 2), args.numPlayers) = "Low"

\* The two conditions of getPaceRisk, on an integer pace.
HighCondition(pace, numPlayers) == pace - numPlayers + (numPlayers \div 2) < 0

MediumCondition(pace, numPlayers) == pace - numPlayers < 0

\* C11 as stated: the two formulas are not nested, that is, some pace > 0 and
\* some numPlayers in 2..6 satisfy the High condition and not the Medium one.
C11_HighWithoutMedium ==
    \E q \in PaceRange \cup {stats.pace.value}, n \in NumPlayers \cup {args.numPlayers} :
        q > 0 /\ HighCondition(q, n) /\ ~MediumCondition(q, n)

\* C11 amended: the formulas are nested one way.  For every pace > 0 and
\* numPlayers in 2..6 the High condition implies the Medium condition, so
\* getPaceRisk returns High only for a pace below numPlayers; the Medium
\* condition does not imply the High one, so the order of the two checks
\* still matters.
C11_HighImpliesMedium ==
    /\ \A q \in PaceRange, n \in NumPlayers :
          q > 0 /\ HighCondition(q, n) => MediumCondition(q, n)
    /\ \E q \in PaceRange, n \in NumPlayers :
          q > 0 /\ MediumCondition(q, n) /\ ~HighCondition(q, n)
    /\ stats.paceRisk = "High" =>
          /\ HighCondition(stats.pace.value, args.numPlayers)
          /\ MediumCondition(stats.pace.value, args.numPlayers)
    /\ (stats.paceRisk = "Medium" /\ stats.pace # Null) =>
          ~HighCondition(stats.pace.value, args.numPlayers)

\* Pace 1 with 3 players: both conditions hold and the risk is High.
C11_Witness ==
    /\ stats.paceRisk = "High"
    /\ stats.pace = Number(1)
    /\ args.numPlayers = 3
    /\ MediumCondition(1, 3)

(***************************************************************************)
(* C3..C4: getCluesStillUsableNotRounded.                                  *)
(***************************************************************************)
Raises ==
    \/ Len(args.scorePerStack) # Len(args.maxScorePerStack)
    \/ args.discardValue < args.suitValue

\* C3: the call raises whenever the two stack arrays differ in length and
\* whenever discardValue < suitValue, whatever the deck size; when neither
\* holds it returns null exactly when deckSize <= 0 and a number otherwise.
C3_RaisesBeforeNull ==
    stats.cluesStillUsable # Unset =>
        /\ Raises => stats.cluesStillUsable = Throw
        /\ (~Raises /\ args.deckSize <= 0) => stats.cluesStillUsable = Null
        /\ (~Raises /\ args.deckSize > 0) => stats.cluesStillUsable.kind = "number"

\* A raising call on an empty deck.
C3_Witness ==
    /\ stats.cluesStillUsable = Throw
    /\ args.deckSize <= 0
    /\ args.discardValue < args.suitValue

\* The suits that can still be completed, and the cards each is missing.
CompletableSuits ==
    { i \in 1..Len(args.scorePerStack) :
        /\ args.maxScorePerStack[i] = args.stackSize
        /\ args.scorePerStack[i] < args.stackSize }

RECURSIVE MissingCardsOf(_)
MissingCardsOf(suits) ==
    IF suits = {}
    THEN 0
    ELSE LET i == CHOOSE x \in suits : TRUE
         IN  (args.stackSize - args.scorePerStack[i]) + MissingCardsOf(suits \ {i})

PlaysBeforeFinalRound ==
    LET missingScore == sumArray(args.maxScorePerStack) - args.score
    IN  getMaxPlays(missingScore, args.deckSize, args.endGameLength)
        - getMaxPlaysDuringFinalRound(missingScore, args.endGameLength)

\* The most suits any choice of completable suits fits into the budget.
MostSuitsCompletable ==
    LET fitting == { chosen \in SUBSET CompletableSuits :
                        MissingCardsOf(chosen) <= PlaysBeforeFinalRound }
    IN  CHOOSE n \in 0..Len(args.scorePerStack) :
            /\ \E chosen \in fitting : Cardinality(chosen) = n
            /\ \A chosen \in fitting : Cardinality(chosen) <= n

\* C4: with deckSize > 0 and suitValue > 0 a call that does not raise returns
\* D * discardValue + S * suitValue + currentClues, D the discards possible
\* before the final round and S the most completable suits whose missing
\* cards fit into the plays before the final round, over all subsets.
C4_GreedyPackingIsBest ==
    (stats.cluesStillUsable # Unset /\ ~Raises /\ args.deckSize > 0
        /\ args.suitValue > 0) =>
        LET missingScore == sumArray(args.maxScorePerStack) - args.score
            D == getMaxDiscardsBeforeFinalRound(missingScore, args.deckSize,
                                                args.endGameLength)
        IN  stats.cluesStillUsable =
                Number(D * args.discardValue
                       + MostSuitsCompletable * args.suitValue
                       + args.currentClues)

\* Two completable suits of which only the smaller fits, listed larger first.
C4_Witness ==
    /\ stats.cluesStillUsable.kind = "number"
    /\ args.suitValue > 0
    /\ Cardinality(CompletableSuits) >= 2
    /\ MostSuitsCompletable = 1
    /\ args.stackSize - args.scorePerStack[1] > PlaysBeforeFinalRound

(***************************************************************************)
(* C5..C7: getDoubleDiscardCard, on the states of Spec right after a       *)
(* discard has been folded into the game state.                            *)
(***************************************************************************)
AfterDiscard == action.type = "discard"

CardDiscarded == At(gameState.deck, action.order)

GameNotOver == gameState.turn.currentPlayerIndex # Null

NextPlayerLocked ==
    isHandLocked(At(gameState.hands, (gameState.turn.currentPlayerIndex.value + 1) % NumHands),
                 gameState.deck)

IdentityKnown == CardDiscarded.suitIndex # Null /\ CardDiscarded.rank # Null

StillNeeded ==
    isCardNeedsToBePlayed(CardDiscarded.suitIndex.value, CardDiscarded.rank.value,
                          gameState.deck, gameState.playStacks, OneSuit)

\* Needed until this discard: not played, and every lower rank has a copy left.
NeededBeforeDiscard ==
    /\ ~ \E i \in 1..Len(At(gameState.playStacks, CardDiscarded.suitIndex.value)) :
            At(gameState.deck, At(gameState.playStacks, CardDiscarded.suitIndex.value)[i]).rank
                = CardDiscarded.rank
    /\ \A r \in 1..(CardDiscarded.rank.value - 1) :
            getNumDiscardedCopiesOfCard(gameState.deck, CardDiscarded.suitIndex.value, r)
                < getNumCopiesOfCard(At(OneSuit.suits, CardDiscarded.suitIndex.value), r, OneSuit)

\* A fully determined copy of the discarded card in the hand of one of the players.
FilledInCopyIn(players) ==
    \E i \in 1..Len(gameState.deck) :
        /\ IsFilledInCopy(gameState.deck[i], CardDiscarded)
        /\ gameState.deck[i].location.playerIndex \in players

AllPlayers == 0..(NumHands - 1)

CopiesLeft ==
    getNumCopiesOfCard(At(OneSuit.suits, CardDiscarded.suitIndex.value), CardDiscarded.rank.value, OneSuit)
        - getNumDiscardedCopiesOfCard(gameState.deck, CardDiscarded.suitIndex.value,
                                      CardDiscarded.rank.value)

\* C5: after a discard, getDoubleDiscardCard returns the discarded order if
\* and only if the game is not over, the next player's hand is not locked,
\* the discarded card's suit and rank are known, the card still needs to be
\* played, no fully determined copy is in ANOTHER player's hand (the
\* discarder's own hand does not count) and exactly one copy remains
\* undiscarded; otherwise it returns null.
C5_DoubleDiscardIffSixConditions ==
    AfterDiscard =>
        /\ stats.doubleDiscardCard \in { Null, Number(action.order) }
        /\ stats.doubleDiscardCard = Number(action.order)
              <=> /\ GameNotOver
                  /\ ~NextPlayerLocked
                  /\ IdentityKnown
                  /\ StillNeeded
                  /\ ~FilledInCopyIn(AllPlayers \ {action.playerIndex})
                  /\ CopiesLeft = 1

\* The discarder holds the other copy, fully determined, and no one else does:
\* the six conditions hold and null is returned.
C5_Witness ==
    /\ AfterDiscard
    /\ GameNotOver
    /\ ~NextPlayerLocked
    /\ IdentityKnown
    /\ StillNeeded
    /\ FilledInCopyIn({action.playerIndex})
    /\ ~FilledInCopyIn(AllPlayers \ {action.playerIndex})
    /\ CopiesLeft = 1
    /\ stats.doubleDiscardCard = Null

\* C6: getDoubleDiscardCard returns null whenever every card in the next
\* player's hand has a positive clue, whatever the discarded card's identity,
\* whether it still needs to be played and however many copies remain.
C6_LockedNextHandGivesNull ==
    AfterDiscard /\ GameNotOver /\ NextPlayerLocked => stats.doubleDiscardCard = Null

\* Only the locked hand stands between the discard and a double discard.
C6_Witness ==
    /\ AfterDiscard
    /\ GameNotOver
    /\ NextPlayerLocked
    /\ Len(At(gameState.hands, (gameState.turn.currentPlayerIndex.value + 1) % NumHands)) > 0
    /\ IdentityKnown
    /\ StillNeeded
    /\ ~FilledInCopyIn(AllPlayers)
    /\ CopiesLeft = 1
    /\ stats.doubleDiscardCard = Null

\* C7 as stated: discarding the last undiscarded copy of a card that was still
\* needed, with the next hand not locked and no fully determined duplicate in
\* any hand, returns the order of the discarded card.
C7_LastCopyGivesOrder ==
    /\ AfterDiscard
    /\ GameNotOver
    /\ ~NextPlayerLocked
    /\ IdentityKnown
    /\ NeededBeforeDiscard
    /\ ~FilledInCopyIn(AllPlayers)
    /\ CopiesLeft = 0
    => stats.doubleDiscardCard = Number(action.order)

\* C7 amended: a discard that leaves exactly one undiscarded copy of a card
\* that still needs to be played, while the game is not over, the next hand is
\* not locked and no fully determined copy is in any hand, returns the order
\* of the discarded card; a discard of the last undiscarded copy returns null.
C7_OneCopyLeftGivesOrder ==
    AfterDiscard /\ IdentityKnown =>
        /\ GameNotOver /\ ~NextPlayerLocked /\ StillNeeded /\ ~FilledInCopyIn(AllPlayers) /\ CopiesLeft = 1
              => stats.doubleDiscardCard = Number(action.order)
        /\ CopiesLeft = 0 => stats.doubleDiscardCard = Null

C7_Witness ==
    /\ AfterDiscard
    /\ GameNotOver
    /\ ~NextPlayerLocked
    /\ IdentityKnown
    /\ StillNeeded
    /\ ~FilledInCopyIn(AllPlayers)
    /\ CopiesLeft = 1
    /\ stats.doubleDiscardCard = Number(action.order)

(***************************************************************************)
(* C8: getCardsGotten, on the positions of SpecGotten.                     *)
(***************************************************************************)
IsPlayed(cardState) == cardState.location = OnPlayStack

IsCountedMisplay(cardState) ==
    /\ cardState.location = InDiscard
    /\ cardState.isMisplayed
    /\ args.throwItInAHole
    /\ (args.playing \/ args.shadowing)

IsCluedNonTrashInHand(cardState) ==
    /\ cardState.location.kind = "hand"
    /\ cardState.numPositiveClues > 0
    /\ \E card \in cardState.possibleCardsFromClues :
          isCardNeedsToBePlayed(card[1], card[2], gameState.deck, gameState.playStacks,
                                TwoSuits(args.throwItInAHole))

CardsPlayed ==
    { i \in 1..Len(gameState.deck) : IsPlayed(gameState.deck[i]) }

MisplaysCounted ==
    { i \in 1..Len(gameState.deck) : IsCountedMisplay(gameState.deck[i]) }

CardsCluedNonTrashInHand ==
    { i \in 1..Len(gameState.deck) : IsCluedNonTrashInHand(gameState.deck[i]) }

\* C8: getCardsGotten returns min(maxScore, N), where N counts once every card
\* that is on a play stack, or is a misplayed card in the discard pile while
\* the variant is throw-it-in-a-hole and (playing or shadowing), or is in a
\* hand, clued and not all-possibilities-trash; it never exceeds maxScore.
C8_CardsGottenIsClampedCount ==
    args.type = "getCardsGotten" =>
        /\ stats.cardsGotten =
              Min(args.maxScore,
                  Cardinality(CardsPlayed \cup MisplaysCounted \cup CardsCluedNonTrashInHand))
        /\ stats.cardsGotten <= args.maxScore

\* 3 played cards plus 2 clued non-trash cards in hand with maxScore 25 give 5.
C8_Witness ==
    /\ args.type = "getCardsGotten"
    /\ args.maxScore = 25
    /\ Cardinality(CardsPlayed) = 3
    /\ Cardinality(CardsCluedNonTrashInHand) = 2
    /\ MisplaysCounted = {}
    /\ stats.cardsGotten = 5

(***************************************************************************)
(* C9: getCardsGottenByNotes, on the positions and notes of SpecNotes.     *)
(***************************************************************************)
IsInHandNotAllTrash(cardState) ==
    /\ cardState.location.kind = "hand"
    /\ \E card \in cardState.possibleCardsFromClues :
          isCardNeedsToBePlayed(card[1], card[2], gameState.deck, gameState.playStacks,
                                TwoSuits(FALSE))

NoteOf(order) == IF order \in DOMAIN notes THEN notes[order] ELSE {}

ReallyClued(order) == At(gameState.deck, order).numPositiveClues > 0

\* The per-card delta as stated: +1 whatever other flags the note carries.
StatedDelta(order) ==
    IF ReallyClued(order) /\ NoteOf(order) \cap {"unclued", "knownTrash"} # {}
    THEN -1
    ELSE IF ~ReallyClued(order) /\ NoteOf(order) \cap {"clued", "finessed"} # {}
         THEN 1
         ELSE 0

\* The per-card delta with +1 only for a note that marks the card neither
\* unclued nor known trash.
AmendedDelta(order) ==
    IF ReallyClued(order) /\ NoteOf(order) \cap {"unclued", "knownTrash"} # {}
    THEN -1
    ELSE IF /\ ~ReallyClued(order)
            /\ NoteOf(order) \cap {"clued", "finessed"} # {}
            /\ NoteOf(order) \cap {"unclued", "knownTrash"} = {}
         THEN 1
         ELSE 0

OrdersInHandNotAllTrash ==
    { order \in 0..(Len(gameState.deck) - 1) : IsInHandNotAllTrash(At(gameState.deck, order)) }

\* Every delta is -1, 0 or +1, so the sums count the +1s less the -1s.
StatedSum ==
    Cardinality({ order \in OrdersInHandNotAllTrash : StatedDelta(order) = 1 })
        - Cardinality({ order \in OrdersInHandNotAllTrash : StatedDelta(order) = -1 })

AmendedSum ==
    Cardinality({ order \in OrdersInHandNotAllTrash : AmendedDelta(order) = 1 })
        - Cardinality({ order \in OrdersInHandNotAllTrash : AmendedDelta(order) = -1 })

NotesWritten == DOMAIN notes # {}

\* C9 as stated: getCardsGottenByNotes is the sum, over the cards in hands
\* that are not all-possibilities-trash, of -1 for a really clued card whose
\* note marks it unclued or known trash, +1 for a card without a real clue
\* whose note marks it clued or finessed whatever other flags it carries, and
\* 0 otherwise.
C9_NotesDeltaWhateverOtherFlags ==
    NotesWritten => stats.cardsGottenByNotes = StatedSum

\* C9 amended: the +1 is given only when the note marks the card clued or
\* finessed and neither unclued nor known trash.
C9_NotesDeltaUnlessUncluedOrTrash ==
    NotesWritten => stats.cardsGottenByNotes = AmendedSum

\* A card without a real clue is noted clued and known trash, and adds nothing.
C9_Witness ==
    /\ NotesWritten
    /\ \E order \in OrdersInHandNotAllTrash :
          /\ ~ReallyClued(order)
          /\ NoteOf(order) = {"clued", "knownTrash"}
    /\ stats.cardsGottenByNotes = 0

(***************************************************************************)
(* C12: the order in which StateObserver's listeners are called.           *)
(***************************************************************************)
Called == { observer.called[i] : i \in 1..Len(observer.called) }

CallOf(listener) == CHOOSE i \in 1..Len(observer.called) : observer.called[i] = listener

RunsBefore(first, second) ==
    (first \in Called /\ second \in Called) => CallOf(first) < CallOf(second)

\* The listeners whose selected projection changed in the last transition.
Triggered ==
    { Subscriptions[i].onChange : i \in
        { j \in 1..Len(Subscriptions) :
            \/ Subscriptions[j].on = "state" /\ observer.changed = VisibleStateFields
            \/ Subscriptions[j].on = "visibleState"
                 /\ Subscriptions[j].fields \cap observer.changed # {} } }

\* C12: after every transition exactly the listeners whose projection changed
\* are called, once each, in registration order: onHandsChanged before
\* onDiscardStacksChanged before onPlayStacksChanged before
\* onStackDirectionsChanged, and onInitializationChanged after every other
\* listener the transition triggers.
C12_ListenersRunInRegistrationOrder ==
    /\ Called = Triggered
    /\ Len(observer.called) = Cardinality(Called)
    /\ RunsBefore("onHandsChanged", "onDiscardStacksChanged")
    /\ RunsBefore("onDiscardStacksChanged", "onPlayStacksChanged")
    /\ RunsBefore("onPlayStacksChanged", "onStackDirectionsChanged")
    /\ \A listener \in Called \ {"onInitializationChanged"} :
          RunsBefore(listener, "onInitializationChanged")

\* The visible state becomes valid: hands, discard stacks and play stacks
\* change with every other projection, every listener runs once, the card
\* layout listeners in their order and the initialization listener last.
C12_Witness ==
    /\ {"hands", "discardStacks", "playStacks"} \subseteq observer.changed
    /\ Len(observer.called) = Len(Subscriptions)
    /\ CallOf("onHandsChanged") < CallOf("onDiscardStacksChanged")
    /\ CallOf("onDiscardStacksChanged") < CallOf("onPlayStacksChanged")
    /\ CallOf("onPlayStacksChanged") < CallOf("onStackDirectionsChanged")
    /\ observer.called[Len(observer.called)] = "onInitializationChanged"

(***************************************************************************)
(* C13: updateLog keeps the clue log equal to the tail of the clue list.   *)
(***************************************************************************)
LogLength == Min(Len(clues), clueLog.maxLength)

\* The clue wanted at entry i of the log, i counted from 0.
WantedClue(i) == clues[Max(0, Len(clues) - clueLog.maxLength) + i + 1]

\* C13: after any sequence of updateLog calls, on clue lists that grow or
\* shrink, the clue log holds exactly the last min(clues.length, maxLength)
\* clues of the latest list in their order; an entry is left untouched exactly
\* when the log already held a deep-equal clue at its place, and no entry of
\* an earlier, longer list remains.
C13_LogIsTailOfClues ==
    clueLog # Null =>
        /\ Len(clueLog.children) = LogLength
        /\ \A i \in 0..(LogLength - 1) :
              /\ clueLog.children[i + 1].clue = WantedClue(i)
              /\ clueLog.children[i + 1].isNew
                    <=> ~(i < Len(clueLog.previous) /\ clueLog.previous[i + 1].clue = WantedClue(i))

\* After a rewind: an entry of the longer list is gone, the first entry is
\* left untouched.
C13_Witness ==
    /\ clueLog # Null
    /\ Len(clueLog.previous) > Len(clues)
    /\ Len(clueLog.children) = Len(clues)
    /\ Len(clues) > 0
    /\ ~clueLog.children[1].isNew

(***************************************************************************)
(* C14: the discard budget of getCluesStillUsableNotRounded.               *)
(***************************************************************************)
\* The budget and the pace for a score, on the deck, the maximum score and the
\* end game length of the call.
DiscardBudget(score) ==
    getMaxDiscardsBeforeFinalRound(sumArray(args.maxScorePerStack) - score,
                                   args.deckSize, args.endGameLength)

PaceAt(score) ==
    getPace(score, args.deckSize, sumArray(args.maxScorePerStack), args.endGameLength, FALSE)

\* The scores of the call's stacks and the scores above the maximum score.
BudgetScores == 0..(sumArray(args.maxScorePerStack) + MaxStackSize)

\* C14: for score, maxScore, endGameLength >= 0 and deckSize >= 1 the discard
\* budget getMaxDiscardsBeforeFinalRound(maxScore - score, deckSize,
\* endGameLength) equals min(deckSize - 1, max(0, getPace(score, deckSize,
\* maxScore, endGameLength, false))), so it is never negative and never above
\* deckSize - 1; it is the budget getCluesStillUsableNotRounded multiplies by
\* the discard value.
C14_DiscardBudgetIsClampedPace ==
    (stats.cluesStillUsable # Unset /\ stats.cluesStillUsable.kind = "number") =>
        /\ \A score \in BudgetScores :
              /\ PaceAt(score) # Null
              /\ DiscardBudget(score) = Min(args.deckSize - 1, Max(0, PaceAt(score).value))
              /\ DiscardBudget(score) >= 0
              /\ DiscardBudget(score) <= args.deckSize - 1
        /\ args.suitValue = 0 =>
              stats.cluesStillUsable.value
                  = Min(args.deckSize - 1, Max(0, PaceAt(args.score).value)) * args.discardValue
                    + args.currentClues

\* A pace above the deck: the budget stops at deckSize - 1, and the clues
\* still usable are the budget times the discard value plus the current clues.
C14_Witness ==
    /\ stats.cluesStillUsable # Unset
    /\ stats.cluesStillUsable.kind = "number"
    /\ args.suitValue = 0
    /\ args.deckSize >= 2
    /\ PaceAt(args.score).value > args.deckSize - 1
    /\ DiscardBudget(args.score) = args.deckSize - 1
    /\ stats.cluesStillUsable.value = (args.deckSize - 1) * args.discardValue + args.currentClues

====
